---- MODULE Spec2Model ----
(***************************************************************************)
(* A model of skinny-orm: the SqliteOrm session (skinny_orm/sqlite_orm.py), *)
(* the BaseField expression handles (skinny_orm/base_field.py), the        *)
(* generic Orm session and its handles (skinny_orm/orm.py), and the        *)
(* sqlite3 connection the sessions drive.                                  *)
(*                                                                         *)
(* SQL text is kept as the sequence of pieces the code concatenates;       *)
(* Text(q) is the string the code holds.  The store reads the same pieces. *)
(***************************************************************************)
EXTENDS Integers, Sequences, FiniteSets, TLC

(* ---------------------------------------------------------------------- *)
(* Python values                                                           *)
(* ---------------------------------------------------------------------- *)
None == <<"None">>
I(n) == <<"int", n>>
S(s) == <<"str", s>>
F(n) == <<"float", n>>
D(n) == <<"datetime", n>>

NoneEntity == "None"

RECURSIVE Text(_)
Text(chunks) == IF chunks = <<>> THEN "" ELSE Head(chunks) \o Text(Tail(chunks))

RECURSIVE Join(_, _)
Join(sep, items) ==
    IF Len(items) = 0 THEN <<>>
    ELSE IF Len(items) = 1 THEN <<items[1]>>
    ELSE <<items[1], sep>> \o Join(sep, Tail(items))

Prefix(q, n) == SubSeq(q, 1, n)
Drop(q, n) == SubSeq(q, n + 1, Len(q))

(* ---------------------------------------------------------------------- *)
(* Entity kinds: the dataclasses of the test module                        *)
(* ---------------------------------------------------------------------- *)
Kinds == {"User", "Animal", "RockBand"}

\* entity.__dataclass_fields__: field name -> declared type, declaration order
DataclassFields(k) ==
    CASE k = "User" -> << <<"id", "int">>, <<"name", "str">>, <<"age", "int">>,
                          <<"birth", "datetime">>, <<"percentage", "float">> >>
      [] k = "Animal" -> << <<"id", "int">>, <<"name", "str">> >>
      [] k = "RockBand" -> << <<"name", "str">> >>

FieldNames(k) == [i \in 1..Len(DataclassFields(k)) |-> DataclassFields(k)[i][1]]
FieldNameSet(k) == {FieldNames(k)[i] : i \in 1..Len(FieldNames(k))}
FieldIndex(k, f) == CHOOSE i \in 1..Len(FieldNames(k)) : FieldNames(k)[i] = f
FieldType(k, f) == DataclassFields(k)[FieldIndex(k, f)][2]

\* a record instance: its class and its field values in declaration order
Instance(k, vals) == [cls |-> k, vals |-> vals]

Comparators == {"=", ">", ">=", "<=", "<", "!="}

PYTHON_TYPES_TO_SQLITE_MAPPING(t) ==
    CASE t = "int" -> "INTEGER"
      [] t = "str" -> "TEXT"
      [] t = "float" -> "REAL"
      [] t = "datetime" -> "TEXT"

(* ---------------------------------------------------------------------- *)
(* Exceptions                                                              *)
(* ---------------------------------------------------------------------- *)
NoError == [type |-> "", msg |-> ""]
Error(t, m) == [type |-> t, msg |-> m]
NoSuchTable(k) == Error("sqlite3.OperationalError", "no such table: " \o k)
SyntaxError == Error("sqlite3.OperationalError", "syntax error")
TableExists(k) == Error("sqlite3.OperationalError", "table " \o k \o " already exists")
BindingError == Error("sqlite3.ProgrammingError", "Incorrect number of bindings supplied")
InterfaceError == Error("sqlite3.InterfaceError", "Error binding parameter")
\* 'no such table' in str(e)
\* a test for another wording of the error
MentionsTableMissing(e) == \E k \in Kinds : e.msg = "table " \o k \o " does not exist"

MentionsNoSuchTable(e) == \E k \in Kinds : e.msg = "no such table: " \o k
IsOperationalError(e) == e.type = "sqlite3.OperationalError"

(* ---------------------------------------------------------------------- *)
(* Statement text, as the session builds it                                *)
(* ---------------------------------------------------------------------- *)
QualifiedNames(k) == [i \in 1..Len(FieldNames(k)) |-> k \o "." \o FieldNames(k)[i]]

\* f"{entity}.{field_name} {comparator} ? "
CondText(entity, f, c) == entity \o "." \o f \o " " \o c \o " ? "
\* f"{field_name} = ? " (set) and f"{field} = ?" (using)
AssignText(f) == f \o " = ? "
KeyText(f) == f \o " = ?"

_generate_insert_query(k) ==
    <<"INSERT INTO ", k, " (">> \o Join(", ", FieldNames(k)) \o <<") VALUES (">>
        \o Join(", ", [i \in 1..Len(FieldNames(k)) |-> "?"]) \o <<")">>

CreateTableQuery(k) ==
    LET params == [i \in 1..Len(FieldNames(k)) |->
                     FieldNames(k)[i] \o "   "
                        \o PYTHON_TYPES_TO_SQLITE_MAPPING(DataclassFields(k)[i][2])]
    IN  <<"CREATE TABLE \"", k, "\"(">> \o Join(", ", params) \o <<");">>

(* ---------------------------------------------------------------------- *)
(* The sqlite3 connection: one relation per entity kind                    *)
(* ---------------------------------------------------------------------- *)
MaxRows == 2
MaxLimit == 2
MaxDt == 1

\* the default datetime adapter writes str(datetime); dateparser reads it back
DtText(n) == "2021-05-0" \o ToString(n) \o " 10:00:00"
DateParse(s) ==
    IF \E n \in 1..MaxDt : DtText(n) = s
    THEN D(CHOOSE n \in 1..MaxDt : DtText(n) = s)
    ELSE None

IsNumber(v) == v[1] \in {"int", "float"}
Num(v) == IF v[1] = "int" THEN 100 * v[2] ELSE v[2]
StrOrder == <<"Bra", "Fluffy", "Gohan", "Goku", "Rex", "Simple Plan">>
StrRank(s) == IF \E i \in 1..Len(StrOrder) : StrOrder[i] = s
              THEN CHOOSE i \in 1..Len(StrOrder) : StrOrder[i] = s ELSE 0
\* sqlite's ordering: numbers before text, numbers by value, text by collation
Less(a, b) ==
    IF IsNumber(a) /\ IsNumber(b) THEN Num(a) < Num(b)
    ELSE IF IsNumber(a) THEN b[1] = "str"
    ELSE IF IsNumber(b) THEN FALSE
    ELSE a[1] = "str" /\ b[1] = "str" /\ StrRank(a[2]) < StrRank(b[2])
Same(a, b) == IF IsNumber(a) /\ IsNumber(b) THEN Num(a) = Num(b) ELSE a = b

Compare(c, a, b) ==
    CASE c = "=" -> Same(a, b)
      [] c = "!=" -> ~Same(a, b)
      [] c = "<" -> Less(a, b)
      [] c = "<=" -> Less(a, b) \/ Same(a, b)
      [] c = ">" -> Less(b, a)
      [] c = ">=" -> Less(b, a) \/ Same(a, b)

\* one comparison of a where-clause, as the store reads it back from the text
IsCond(k, chunk) ==
    \E f \in FieldNameSet(k) :
        \/ \E c \in Comparators : \E e \in Kinds : chunk = CondText(e, f, c) /\ e = k
        \/ chunk = KeyText(f)
CondOf(k, chunk) ==
    IF \E f \in FieldNameSet(k) : chunk = KeyText(f)
    THEN [f |-> CHOOSE f \in FieldNameSet(k) : chunk = KeyText(f), c |-> "="]
    ELSE LET fc == CHOOSE fc \in FieldNameSet(k) \X Comparators :
                        chunk = CondText(k, fc[1], fc[2])
         IN [f |-> fc[1], c |-> fc[2]]

IsAssign(k, chunk) == \E f \in FieldNameSet(k) : chunk \in {AssignText(f), KeyText(f)}
AssignOf(k, chunk) == CHOOSE f \in FieldNameSet(k) : chunk \in {AssignText(f), KeyText(f)}

ParseFail == [ok |-> FALSE, items |-> <<>>, conns |-> <<>>, rest |-> <<>>]

\* cond (("and " | "or ") cond)*
RECURSIVE ParseConds(_, _)
ParseConds(k, ch) ==
    IF ch = <<>> THEN ParseFail
    ELSE IF ~IsCond(k, ch[1]) THEN ParseFail
    ELSE IF Len(ch) >= 2 /\ ch[2] \in {"and ", "or "}
         THEN LET r == ParseConds(k, Drop(ch, 2))
              IN [ok |-> r.ok, items |-> <<CondOf(k, ch[1])>> \o r.items,
                  conns |-> <<ch[2]>> \o r.conns, rest |-> r.rest]
         ELSE [ok |-> TRUE, items |-> <<CondOf(k, ch[1])>>, conns |-> <<>>,
               rest |-> Drop(ch, 1)]

\* assignment (", " assignment)*
RECURSIVE ParseAssigns(_, _)
ParseAssigns(k, ch) ==
    IF ch = <<>> THEN ParseFail
    ELSE IF ~IsAssign(k, ch[1]) THEN ParseFail
    ELSE IF Len(ch) >= 2 /\ ch[2] = ", "
         THEN LET r == ParseAssigns(k, Drop(ch, 2))
              IN [ok |-> r.ok, items |-> <<AssignOf(k, ch[1])>> \o r.items,
                  conns |-> <<>>, rest |-> r.rest]
         ELSE [ok |-> TRUE, items |-> <<AssignOf(k, ch[1])>>, conns |-> <<>>,
               rest |-> Drop(ch, 1)]

BadStatement == [verb |-> "error", table |-> "", sets |-> <<>>, conds |-> <<>>,
                 conns |-> <<>>, limit |-> -1]
Statement(v, k) == [verb |-> v, table |-> k, sets |-> <<>>, conds |-> <<>>,
                    conns |-> <<>>, limit |-> -1]

\* the statement st with the where-clause w, and what may follow it
WithWhere(st, w) ==
    IF ~w.ok THEN BadStatement
    ELSE IF w.rest = <<>> THEN [st EXCEPT !.conds = w.items, !.conns = w.conns]
    ELSE IF /\ st.verb = "select"
            /\ Len(w.rest) = 2 /\ w.rest[1] = " limit "
            /\ \E n \in 0..(MaxLimit + 1) : ToString(n) = w.rest[2]
         THEN [st EXCEPT !.conds = w.items, !.conns = w.conns,
                         !.limit = CHOOSE n \in 0..(MaxLimit + 1) : ToString(n) = w.rest[2]]
    ELSE BadStatement

\* [" " "where " conds] [" limit " n], the limit for a select only
ParseTail(st, tail) ==
    IF Len(tail) >= 2 /\ tail[1] = " " /\ tail[2] = "where "
    THEN WithWhere(st, ParseConds(st.table, Drop(tail, 2)))
    ELSE WithWhere(st, [ok |-> TRUE, items |-> <<>>, conns |-> <<>>, rest |-> tail])

\* "update E " " " "set " assignments " " "where " conds
ParseUpdate(k, tail) ==
    IF ~(Len(tail) >= 2 /\ tail[1] = " " /\ tail[2] = "set ") THEN BadStatement
    ELSE LET a == ParseAssigns(k, Drop(tail, 2))
         IN  IF ~a.ok THEN BadStatement
             ELSE IF a.rest = <<>> THEN [Statement("update", k) EXCEPT !.sets = a.items]
             ELSE ParseTail([Statement("update", k) EXCEPT !.sets = a.items], a.rest)

SelectLen(k) == 2 * Len(FieldNames(k)) + 2
IsSelect(q, k) ==
    /\ Len(q) >= SelectLen(k)
    /\ Prefix(q, SelectLen(k)) = <<"select ">> \o Join(", ", QualifiedNames(k)) \o <<" from ", k>>

Parse(q) ==
    IF q = <<>> THEN BadStatement
    ELSE IF \E k \in Kinds : q = _generate_insert_query(k)
         THEN Statement("insert", CHOOSE k \in Kinds : q = _generate_insert_query(k))
    ELSE IF \E k \in Kinds : q = CreateTableQuery(k)
         THEN Statement("create", CHOOSE k \in Kinds : q = CreateTableQuery(k))
    ELSE IF \E k \in Kinds : Len(q) >= 2 /\ Prefix(q, 2) = <<"delete from ", k>>
         THEN ParseTail(Statement("delete", q[2]), Drop(q, 2))
    ELSE IF \E k \in Kinds : Len(q) >= 3 /\ Prefix(q, 3) = <<"update ", k, " ">>
         THEN ParseUpdate(q[2], Drop(q, 3))
    ELSE IF \E k \in Kinds : IsSelect(q, k)
         THEN LET k == CHOOSE k \in Kinds : IsSelect(q, k)
              IN  ParseTail(Statement("select", k), Drop(q, SelectLen(k)))
    ELSE BadStatement

Placeholders(st) ==
    IF st.verb = "insert" THEN Len(FieldNames(st.table))
    ELSE IF st.verb = "create" THEN 0
    ELSE Len(st.sets) + Len(st.conds)

\* and binds tighter than or
Matches(st, row, args) ==
    LET n == Len(st.conds)
        b(i) == Compare(st.conds[i].c, row[FieldIndex(st.table, st.conds[i].f)], args[i])
    IN  \/ n = 0
        \/ \E i \in 1..n : \E j \in i..n :
              /\ i = 1 \/ st.conns[i - 1] = "or "
              /\ j = n \/ st.conns[j] = "or "
              /\ \A m \in i..(j - 1) : st.conns[m] = "and "
              /\ \A m \in i..j : b(m)

RECURSIVE Filter(_, _, _, _)
Filter(st, rows, args, keep) ==
    IF rows = <<>> THEN <<>>
    ELSE (IF Matches(st, Head(rows), args) = keep THEN <<Head(rows)>> ELSE <<>>)
            \o Filter(st, Tail(rows), args, keep)

Assigned(st, row, params) ==
    [i \in 1..Len(row) |->
        IF \E j \in 1..Len(st.sets) : FieldIndex(st.table, st.sets[j]) = i
        THEN params[CHOOSE j \in 1..Len(st.sets) :
                        /\ FieldIndex(st.table, st.sets[j]) = i
                        /\ \A j2 \in (j + 1)..Len(st.sets) : FieldIndex(st.table, st.sets[j2]) # i]
        ELSE row[i]]

Limited(found, n) == IF n >= 0 /\ Len(found) > n THEN Prefix(found, n) ELSE found

IsScalar(v) == v[1] # "list"
Adapted(params) ==
    [i \in 1..Len(params) |->
        IF params[i][1] = "datetime" THEN S(DtText(params[i][2])) ELSE params[i]]

StoreResult(e, rows, t) == [err |-> e, rows |-> rows, tables |-> t]

\* the statement `st` read from q, run with params
Run(t, creates, q, params, st) ==
    IF q = None THEN StoreResult(Error("TypeError", "execute() argument 1 must be str, not None"), <<>>, t)
    ELSE IF st.verb = "error" THEN StoreResult(SyntaxError, <<>>, t)
    ELSE IF st.verb = "create" THEN
        IF t[st.table].exists THEN StoreResult(TableExists(st.table), <<>>, t)
        ELSE IF creates
             THEN StoreResult(NoError, <<>>,
                              [t EXCEPT ![st.table] = [exists |-> TRUE, rows |-> <<>>]])
             ELSE StoreResult(NoError, <<>>, t)
    ELSE IF ~t[st.table].exists THEN StoreResult(NoSuchTable(st.table), <<>>, t)
    ELSE IF Len(params) # Placeholders(st) THEN StoreResult(BindingError, <<>>, t)
    ELSE IF \E i \in 1..Len(params) : ~IsScalar(params[i]) THEN StoreResult(InterfaceError, <<>>, t)
    ELSE CASE st.verb = "insert" ->
                StoreResult(NoError, <<>>,
                    [t EXCEPT ![st.table].rows = Append(@, Adapted(params))])
          [] st.verb = "select" ->
                StoreResult(NoError,
                    Limited(Filter(st, t[st.table].rows, Drop(Adapted(params), Len(st.sets)), TRUE),
                            st.limit), t)
          [] st.verb = "delete" ->
                StoreResult(NoError, <<>>,
                    [t EXCEPT ![st.table].rows =
                        Filter(st, @, Drop(Adapted(params), Len(st.sets)), FALSE)])
          [] st.verb = "update" ->
                StoreResult(NoError, <<>>,
                    [t EXCEPT ![st.table].rows =
                        [i \in 1..Len(@) |->
                            IF Matches(st, @[i], Drop(Adapted(params), Len(st.sets)))
                            THEN Assigned(st, @[i], Adapted(params))
                            ELSE @[i]]])

\* cursor.execute(sql, params) on a store whose CREATE TABLE works iff `creates`
Execute(t, creates, q, params) == Run(t, creates, q, params, Parse(q))

\* cursor.executemany(sql, rows): the statement once per parameter row
RECURSIVE RunMany(_, _, _, _, _), RunRest(_, _, _, _, _)
RunMany(t, creates, q, rows, st) ==
    IF rows = <<>> THEN
        IF st.verb = "error" THEN StoreResult(SyntaxError, <<>>, t)
        ELSE IF ~t[st.table].exists THEN StoreResult(NoSuchTable(st.table), <<>>, t)
        ELSE StoreResult(NoError, <<>>, t)
    ELSE IF IsScalar(Head(rows)) THEN StoreResult(BindingError, <<>>, t)
    ELSE RunRest(creates, q, rows, st, Run(t, creates, q, Head(rows)[2], st))

RunRest(creates, q, rows, st, r) ==
    IF r.err # NoError \/ Len(rows) = 1 THEN r
    ELSE RunMany(r.tables, creates, q, Tail(rows), st)

ExecuteMany(t, creates, q, rows) == RunMany(t, creates, q, rows, Parse(q))

(* ---------------------------------------------------------------------- *)
(* BaseField: the handles _create_class_fields installs on the entity      *)
(* ---------------------------------------------------------------------- *)
Comparator(field_name, comparator, other) ==
    [field_name |-> field_name, comparator |-> comparator, other |-> other]

\* `bound`: the class attribute is a BaseField (a verb has bound the kind);
\* `is_iter`: where() has replaced and_or_s by iter(and_or_s)
BaseField(field_name) ==
    [field_name |-> field_name, comparators |-> <<>>, and_or_s |-> <<>>,
     is_iter |-> FALSE, bound |-> TRUE]

\* __eq__, __gt__, __ge__, __le__, __lt__, __ne__
Comparison(h, c, other) ==
    [h EXCEPT !.comparators = Append(@, Comparator(h.field_name, c, other))]

\* (a list_iterator has no append: the call raises after the extend)
__and__(h, other) ==
    [h EXCEPT !.comparators = @ \o other.comparators,
              !.and_or_s = IF h.is_iter THEN @ ELSE Append(@, "and")]

__or__(h, other) == [h EXCEPT !.and_or_s = IF h.is_iter THEN @ ELSE Append(@, "or")]

NoAppend == [type |-> "AttributeError", msg |-> "'list_iterator' object has no attribute 'append'"]

\* handles that are installed once and kept by the later binds
_create_class_fields_once(fields, k) ==
    IF \A f \in FieldNameSet(k) : fields[k][f].bound THEN fields
    ELSE [fields EXCEPT ![k] = [f \in FieldNameSet(k) |-> BaseField(f)]]

_create_class_fields(fields, k) ==
    [fields EXCEPT ![k] = [f \in FieldNameSet(k) |-> BaseField(f)]]

(* ---------------------------------------------------------------------- *)
(* SqliteOrm: the session                                                  *)
(* ---------------------------------------------------------------------- *)
RecursionLimit == 4

SqliteOrm(create_tables_if_not_exists, parse_fields) ==
    [current_query |-> None,
     current_entity |-> NoneEntity,
     current_params |-> <<>>,
     current_where |-> <<"where ">>,
     current_update_set |-> <<"set ">>,
     is_delete_query |-> FALSE,
     is_update_query |-> FALSE,
     is_bulk_update_query |-> FALSE,
     parse_fields |-> parse_fields,
     create_tables_if_not_exists |-> create_tables_if_not_exists,
     update_instances |-> <<>>]

\* the _re_init of the generic Orm: query, parameters and where-text only
_re_init_partial(o) ==
    [o EXCEPT !.current_query = None,
              !.current_params = <<>>,
              !.current_where = <<"where ">>]

_re_init(o) ==
    [o EXCEPT !.current_query = None,
              !.current_entity = NoneEntity,
              !.current_params = <<>>,
              !.current_where = <<"where ">>,
              !.current_update_set = <<"set ">>,
              !.is_delete_query = FALSE,
              !.is_update_query = FALSE,
              !.is_bulk_update_query = FALSE,
              !.update_instances = <<>>]

\* a select that names the columns without the entity
_generate_select_query_bare(k) ==
    <<"select ">> \o Join(", ", FieldNames(k)) \o <<" from ", k>>

_generate_select_query(k) ==
    <<"select ">> \o Join(", ", QualifiedNames(k)) \o <<" from ", k>>

_get_current_params_for_instance(inst) == inst.vals

\* what a call hands back: a value, or the exception it raised
Self == <<"self">>
\* a fetch that hands back None when it found nothing
ListOrNone(insts) == IF insts = <<>> THEN None ELSE <<"list", insts>>

ListOf(insts) == <<"list", insts>>
Raise(e) == <<"raise", e.type, e.msg>>
Raised(r) == r[1] = "raise"

\* the state a handler works on and leaves: session, handles, store, the
\* store interactions of the call, and its result
\* (`creates`: CREATE TABLE on this connection really creates the table)

select(w, entity) ==
    LET o == [_re_init(w.o) EXCEPT !.current_entity = entity]
    IN  IF entity = NoneEntity
        THEN [w EXCEPT !.o = o,
                       !.ret = Raise(Error("NotValidEntity",
                                   "'None' is not a valid Entity to select from"))]
        ELSE [w EXCEPT !.o = [o EXCEPT !.current_query = _generate_select_query(entity)],
                       !.fields = _create_class_fields(w.fields, entity),
                       !.ret = Self]

delete(w, entity) ==
    LET o == [_re_init(w.o) EXCEPT !.current_entity = entity, !.is_delete_query = TRUE]
    IN  IF entity = NoneEntity
        THEN [w EXCEPT !.o = o,
                       !.ret = Raise(Error("AttributeError",
                                   "'NoneType' object has no attribute '__name__'"))]
        ELSE [w EXCEPT !.o = [o EXCEPT !.current_query = <<"delete from ", entity>>],
                       !.fields = _create_class_fields(w.fields, entity),
                       !.ret = Self]

\* update(entity): a class
update_entity(w, entity) ==
    LET o == [_re_init(w.o) EXCEPT !.current_entity = entity,
                                   !.current_query = <<"update ", entity, " ">>,
                                   !.is_update_query = TRUE]
    IN  [w EXCEPT !.o = o, !.fields = _create_class_fields(w.fields, entity), !.ret = Self]

\* update(instance): a record, or anything else that is not a class (None is
\* an instance of NoneType, which has no __dataclass_fields__)
update_instance(w, inst) ==
    LET o == [_re_init(w.o) EXCEPT !.current_entity = inst.cls,
                                   !.update_instances = <<inst>>,
                                   !.current_query = <<"update ", inst.cls, " ">>]
    IN  IF inst.cls \notin Kinds
        THEN [w EXCEPT !.o = o,
                       !.ret = Raise(Error("AttributeError",
                                   "type object '" \o inst.cls
                                        \o "' has no attribute '__dataclass_fields__'"))]
        ELSE [w EXCEPT !.o = [o EXCEPT !.is_update_query = TRUE],
                       !.fields = _create_class_fields(w.fields, inst.cls),
                       !.ret = Self]

bulk_update(w, instances) ==
    LET o == [_re_init(w.o) EXCEPT !.is_bulk_update_query = TRUE]
    IN  IF instances = <<>>
        THEN [w EXCEPT !.o = o,
                       !.ret = Raise(Error("IndexError", "list index out of range"))]
        ELSE [w EXCEPT !.o = [o EXCEPT !.current_entity = instances[1].cls,
                                       !.update_instances = instances,
                                       !.current_query = <<"update ", instances[1].cls, " ">>,
                                       !.is_update_query = TRUE],
                       !.fields = _create_class_fields(w.fields, instances[1].cls),
                       !.ret = Self]

set(w, set_clause) ==
    IF set_clause.comparators = <<>>
    THEN [w EXCEPT !.ret = Raise(Error("IndexError", "list index out of range"))]
    ELSE LET comparator == set_clause.comparators[1].comparator
             add_comma == IF w.o.current_update_set = <<"set ">> THEN <<>> ELSE <<", ">>
         IN IF comparator # "="
            THEN [w EXCEPT !.ret = Raise(Error("NotValidComparator",
                        "The comparator used in the 'set' clause is not valid"))]
            ELSE [w EXCEPT !.o.current_update_set =
                                @ \o add_comma \o <<AssignText(set_clause.field_name)>>,
                           !.o.current_params = Append(@, set_clause.comparators[1].other),
                           !.ret = Self]

(* ---------------------------------------------------------------------- *)
(* Result marshaling                                                       *)
(* ---------------------------------------------------------------------- *)
MaxIntText == 9

IsIntText(s) == \E n \in 0..MaxIntText : ToString(n) = s
IntOfText(s) == CHOOSE n \in 0..MaxIntText : ToString(n) = s
FloatText(n) ==
    ToString(n \div 100) \o "." \o
        (IF (n % 100) % 10 = 0 THEN ToString((n % 100) \div 10)
         ELSE (IF n % 100 < 10 THEN "0" ELSE "") \o ToString(n % 100))

\* field.type(value), and dateparser.parse(value) for a datetime field
Coerce(type, v) ==
    CASE type = "datetime" ->
            IF v[1] = "str" THEN [ok |-> TRUE, val |-> DateParse(v[2])]
            ELSE [ok |-> FALSE, val |-> None]
      [] type = "int" ->
            IF v[1] = "int" THEN [ok |-> TRUE, val |-> v]
            ELSE IF v[1] = "float" THEN [ok |-> TRUE, val |-> I(v[2] \div 100)]
            ELSE IF v[1] = "str" /\ IsIntText(v[2]) THEN [ok |-> TRUE, val |-> I(IntOfText(v[2]))]
            ELSE [ok |-> FALSE, val |-> None]
      [] type = "float" ->
            IF v[1] = "float" THEN [ok |-> TRUE, val |-> v]
            ELSE IF v[1] = "int" THEN [ok |-> TRUE, val |-> F(100 * v[2])]
            ELSE IF v[1] = "str" /\ IsIntText(v[2]) THEN [ok |-> TRUE, val |-> F(100 * IntOfText(v[2]))]
            ELSE [ok |-> FALSE, val |-> None]
      [] type = "str" ->
            IF v[1] = "str" THEN [ok |-> TRUE, val |-> v]
            ELSE IF v[1] = "int" THEN [ok |-> TRUE, val |-> S(ToString(v[2]))]
            ELSE IF v[1] = "float" THEN [ok |-> TRUE, val |-> S(FloatText(v[2]))]
            ELSE IF v[1] = "datetime" THEN [ok |-> TRUE, val |-> S(DtText(v[2]))]
            ELSE [ok |-> TRUE, val |-> S("None")]

ParseError(field_name, field_type) ==
    Error("ParseError", "Impossible to parse " \o field_name \o " to " \o field_type)

\* a marshaler that reads every column as text
_parse_and_get_new_tuple_text(o, tuple_obj) ==
    [ok |-> TRUE,
     vals |-> [i \in 1..Len(tuple_obj) |-> Coerce("str", tuple_obj[i]).val],
     err |-> NoError]

\* [ok, vals] or [ok = FALSE, err]: the first field that does not convert
_parse_and_get_new_tuple(o, tuple_obj) ==
    LET k == o.current_entity
        bad == {i \in 1..Len(FieldNames(k)) : ~Coerce(DataclassFields(k)[i][2], tuple_obj[i]).ok}
    IN  IF ~o.parse_fields THEN [ok |-> TRUE, vals |-> tuple_obj, err |-> NoError]
        ELSE IF bad # {}
             THEN LET i == CHOOSE i \in bad : \A j \in bad : i <= j
                  IN [ok |-> FALSE, vals |-> <<>>,
                      err |-> ParseError(FieldNames(k)[i], DataclassFields(k)[i][2])]
             ELSE [ok |-> TRUE,
                   vals |-> [i \in 1..Len(FieldNames(k)) |->
                                Coerce(DataclassFields(k)[i][2], tuple_obj[i]).val],
                   err |-> NoError]

\* [self.current_entity(*self._parse_and_get_new_tuple(r)) for r in res]
Marshal(o, rows) ==
    LET bad == {i \in 1..Len(rows) : ~_parse_and_get_new_tuple(o, rows[i]).ok}
    IN  IF bad # {}
        THEN [ok |-> FALSE, insts |-> <<>>,
              err |-> _parse_and_get_new_tuple(o, rows[CHOOSE i \in bad : \A j \in bad : i <= j]).err]
        ELSE [ok |-> TRUE,
              insts |-> [i \in 1..Len(rows) |->
                            Instance(o.current_entity, _parse_and_get_new_tuple(o, rows[i]).vals)],
              err |-> NoError]

(* ---------------------------------------------------------------------- *)
(* SqliteOrm: the verbs that reach the store                               *)
(* ---------------------------------------------------------------------- *)
Cursor == <<"cursor">>
Close == <<"close">>
Commit == <<"commit">>
\* (the statement is logged as its pieces; Text gives the string sent)
Exec(q, params, e) == <<"execute", q, params, e.msg>>
ExecMany(q, params, e) == <<"executemany", q, params, e.msg>>
IsExec(ev) == ev[1] \in {"execute", "executemany"}

RecursionError == Error("RecursionError", "maximum recursion depth exceeded")

table_created(w, entity, r) ==
    [w |-> [w EXCEPT !.t = r.tables,
                     !.io = Append(@, Exec(CreateTableQuery(entity), <<>>, r.err))],
     err |-> r.err]

\* returns [w, err]
_create_table(w, entity) ==
    IF entity = NoneEntity
    THEN [w |-> w, err |-> Error("AttributeError",
                    "'NoneType' object has no attribute '__dataclass_fields__'")]
    ELSE table_created(w, entity, Execute(w.t, w.creates, CreateTableQuery(entity), <<>>))

\* A handler is written as the call and what follows each store result, so
\* that every store result is computed once.
Opened(w, o, ev, r) == [w EXCEPT !.o = o, !.t = r.tables, !.io = @ \o <<Cursor, ev>>]

RECURSIVE all(_, _, _), all_executed(_, _, _, _), all_created(_, _, _)
all(w, commit, depth) ==
    IF depth > RecursionLimit THEN [w EXCEPT !.ret = Raise(RecursionError)]
    ELSE all_executed([w EXCEPT !.o.is_delete_query = FALSE], commit, depth,
                      Execute(w.t, w.creates, w.o.current_query, w.o.current_params))

all_marshaled(w, commit, m) ==
    IF m.ok
    THEN [w EXCEPT !.io = @ \o <<Close>> \o (IF commit THEN <<Commit>> ELSE <<>>),
                   !.ret = ListOf(m.insts)]
    ELSE [w EXCEPT !.io = @ \o <<Close>> \o (IF commit THEN <<Commit>> ELSE <<>>) \o <<Close>>,
                   !.ret = Raise(m.err)]

all_executed(w, commit, depth, r) ==
    IF r.err = NoError
    THEN all_marshaled(Opened(w, w.o, Exec(w.o.current_query, w.o.current_params, r.err), r),
                       commit, Marshal(w.o, r.rows))
    ELSE IF IsOperationalError(r.err) THEN
        IF w.o.create_tables_if_not_exists /\ MentionsNoSuchTable(r.err)
        THEN all_created(commit, depth,
                _create_table(Opened(w, w.o, Exec(w.o.current_query, w.o.current_params, r.err), r),
                              w.o.current_entity))
        ELSE [Opened(w, w.o, Exec(w.o.current_query, w.o.current_params, r.err), r)
                EXCEPT !.ret = Raise(r.err)]
    ELSE [Opened(w, w.o, Exec(w.o.current_query, w.o.current_params, r.err), r)
            EXCEPT !.io = Append(@, Close), !.ret = Raise(r.err)]

all_created(commit, depth, c) ==
    IF c.err # NoError THEN [c.w EXCEPT !.ret = Raise(c.err)]
    ELSE all(c.w, commit, depth + 1)

RECURSIVE first(_, _), first_executed(_, _, _), first_created(_, _)
first(w, depth) ==
    IF depth > RecursionLimit THEN [w EXCEPT !.ret = Raise(RecursionError)]
    ELSE first_executed(w, depth,
                        Execute(w.t, w.creates, w.o.current_query, w.o.current_params))

first_marshaled(w, m) ==
    IF m.ok THEN [w EXCEPT !.io = Append(@, Close), !.ret = <<"instance", m.insts[1]>>]
    ELSE [w EXCEPT !.io = @ \o <<Close, Close>>, !.ret = Raise(m.err)]

first_executed(w, depth, r) ==
    IF r.err = NoError THEN
        IF r.rows = <<>>
        THEN [Opened(w, w.o, Exec(w.o.current_query, w.o.current_params, r.err), r)
                EXCEPT !.ret = None]
        ELSE first_marshaled(Opened(w, w.o, Exec(w.o.current_query, w.o.current_params, r.err), r),
                             Marshal(w.o, <<r.rows[1]>>))
    ELSE IF IsOperationalError(r.err) THEN
        IF w.o.create_tables_if_not_exists /\ MentionsNoSuchTable(r.err)
        THEN first_created(depth,
                _create_table(Opened(w, w.o, Exec(w.o.current_query, w.o.current_params, r.err), r),
                              w.o.current_entity))
        ELSE [Opened(w, w.o, Exec(w.o.current_query, w.o.current_params, r.err), r)
                EXCEPT !.ret = Raise(r.err)]
    ELSE [Opened(w, w.o, Exec(w.o.current_query, w.o.current_params, r.err), r)
            EXCEPT !.io = Append(@, Close), !.ret = Raise(r.err)]

\* the result of the inner self.first() is dropped; what it raises is not
first_again(w) == IF Raised(w.ret) THEN w ELSE [w EXCEPT !.ret = None]

first_created(depth, c) ==
    IF c.err # NoError THEN [c.w EXCEPT !.ret = Raise(c.err)]
    ELSE first_again(first(c.w, depth + 1))

\* an insert that wraps what the store raises, as _final does
inserted_wrapped(w, commit, r) ==
    IF r.err = NoError
    THEN [w EXCEPT !.io = @ \o (IF commit THEN <<Commit>> ELSE <<>>) \o <<Close>>, !.ret = None]
    ELSE [w EXCEPT !.io = Append(@, Close),
                   !.ret = Raise(Error("Exception", "Woups! => " \o r.err.msg))]

\* what follows the execute of insert and bulk_insert
inserted(w, commit, r) ==
    IF r.err = NoError
    THEN [w EXCEPT !.io = @ \o (IF commit THEN <<Commit>> ELSE <<>>) \o <<Close>>, !.ret = None]
    ELSE IF IsOperationalError(r.err) THEN [w EXCEPT !.ret = Raise(r.err)]
    ELSE [w EXCEPT !.io = Append(@, Close), !.ret = Raise(r.err)]

\* a recovery that does not consult create_tables_if_not_exists
RecoversAlways(o, r) == IsOperationalError(r.err) /\ MentionsNoSuchTable(r.err)

Recovers(o, r) ==
    /\ IsOperationalError(r.err)
    /\ o.create_tables_if_not_exists
    /\ MentionsNoSuchTable(r.err)

RECURSIVE insert(_, _, _, _), insert_executed(_, _, _, _, _), insert_created(_, _, _, _)
insert(w, instance, commit, depth) ==
    IF depth > RecursionLimit THEN [w EXCEPT !.ret = Raise(RecursionError)]
    ELSE insert_executed(
            [w EXCEPT !.o = [_re_init(w.o) EXCEPT
                    !.current_query = _generate_insert_query(instance.cls),
                    !.current_params = _get_current_params_for_instance(instance)]],
            instance, commit, depth,
            Execute(w.t, w.creates, _generate_insert_query(instance.cls),
                    _get_current_params_for_instance(instance)))

insert_executed(w, instance, commit, depth, r) ==
    IF Recovers(w.o, r)
    THEN insert_created(instance, commit, depth,
            _create_table(Opened(w, w.o, Exec(w.o.current_query, w.o.current_params, r.err), r),
                          instance.cls))
    ELSE inserted(Opened(w, w.o, Exec(w.o.current_query, w.o.current_params, r.err), r),
                  commit, r)

insert_created(instance, commit, depth, c) ==
    IF c.err # NoError THEN [c.w EXCEPT !.ret = Raise(c.err)]
    ELSE insert(c.w, instance, commit, depth + 1)

RowList(instances) ==
    [i \in 1..Len(instances) |-> <<"list", _get_current_params_for_instance(instances[i])>>]

RECURSIVE bulk_insert(_, _, _, _), bulk_insert_executed(_, _, _, _, _), bulk_insert_created(_, _, _, _)
bulk_insert(w, instances, commit, depth) ==
    IF depth > RecursionLimit THEN [w EXCEPT !.ret = Raise(RecursionError)]
    ELSE IF instances = <<>> THEN [w EXCEPT !.o = _re_init(w.o), !.ret = None]
    ELSE bulk_insert_executed(
            [w EXCEPT !.o = [_re_init(w.o) EXCEPT
                    !.current_query = _generate_insert_query(instances[1].cls),
                    !.current_params = RowList(instances)]],
            instances, commit, depth,
            ExecuteMany(w.t, w.creates, _generate_insert_query(instances[1].cls),
                        RowList(instances)))

bulk_insert_executed(w, instances, commit, depth, r) ==
    IF Recovers(w.o, r)
    THEN bulk_insert_created(instances, commit, depth,
            _create_table(Opened(w, w.o, ExecMany(w.o.current_query, w.o.current_params, r.err), r),
                          instances[1].cls))
    ELSE inserted(Opened(w, w.o, ExecMany(w.o.current_query, w.o.current_params, r.err), r),
                  commit, r)

bulk_insert_created(instances, commit, depth, c) ==
    IF c.err # NoError THEN [c.w EXCEPT !.ret = Raise(c.err)]
    ELSE bulk_insert(c.w, instances, commit, depth + 1)

final_executed(w, bulk, r) ==
    LET ev == IF bulk THEN ExecMany(w.o.current_query, w.o.current_params, r.err)
              ELSE Exec(w.o.current_query, w.o.current_params, r.err)
    IN  IF r.err = NoError
        THEN [Opened(w, w.o, ev, r) EXCEPT !.io = @ \o <<Commit, Close>>, !.ret = None]
        ELSE [Opened(w, w.o, ev, r) EXCEPT
                    !.io = Append(@, Close),
                    !.ret = Raise(Error("Exception", "Woups! => " \o r.err.msg))]

final_run(w, bulk) ==
    final_executed(w, bulk,
        IF bulk THEN ExecuteMany(w.t, w.creates, w.o.current_query, w.o.current_params)
        ELSE Execute(w.t, w.creates, w.o.current_query, w.o.current_params))

_final(w, bulk) ==
    final_run([w EXCEPT !.o.is_delete_query = FALSE, !.o.is_update_query = FALSE], bulk)

\* the loop of where(): one piece and one parameter per comparator, and the
\* next connector of the iterator, if one is left
RECURSIVE WhereLoop(_, _, _)
WhereLoop(entity, comparators, and_or_s) ==
    IF comparators = <<>> THEN [text |-> <<>>, params |-> <<>>, left |-> and_or_s]
    ELSE LET comp == Head(comparators)
             r == WhereLoop(entity, Tail(comparators),
                            IF and_or_s = <<>> THEN <<>> ELSE Tail(and_or_s))
         IN [text |-> <<CondText(entity, comp.field_name, comp.comparator)>>
                        \o (IF and_or_s = <<>> THEN <<>> ELSE <<Head(and_or_s) \o " ">>)
                        \o r.text,
             params |-> <<comp.other>> \o r.params,
             left |-> r.left]

where_looped(w, k, f, loop) ==
    [w EXCEPT !.o.current_params = @ \o loop.params,
              !.o.current_where = @ \o loop.text,
              !.o.current_query =
                    @ \o (IF w.o.is_update_query THEN <<" ">> \o w.o.current_update_set ELSE <<>>)
                      \o <<" ">> \o w.o.current_where \o loop.text,
              !.fields[k][f].is_iter = TRUE,
              !.fields[k][f].and_or_s = loop.left]

where_rendered(w) ==
    IF w.o.is_delete_query \/ w.o.is_update_query THEN _final(w, FALSE)
    ELSE [w EXCEPT !.ret = Self]

\* where(where_clause), the clause being the handle of field f of kind k
where(w, k, f) ==
    where_rendered(where_looped(w, k, f,
        WhereLoop(w.o.current_entity, w.fields[k][f].comparators, w.fields[k][f].and_or_s)))

\* using(*args), the arguments being the handles of the fields `keys`
using(w, keys) ==
    LET k == w.o.current_entity
        rows == [i \in 1..Len(w.o.update_instances) |->
                    <<"list", w.o.update_instances[i].vals
                                \o [j \in 1..Len(keys) |->
                                        w.o.update_instances[i].vals[FieldIndex(k, keys[j])]]>>]
        o == [w.o EXCEPT
                !.current_update_set = @ \o Join(", ", [i \in 1..Len(FieldNames(k)) |->
                                                            KeyText(FieldNames(k)[i])]),
                !.current_where = @ \o Join(", ", [i \in 1..Len(keys) |-> KeyText(keys[i])]),
                !.current_query =
                    @ \o <<" ">> \o w.o.current_update_set
                      \o Join(", ", [i \in 1..Len(FieldNames(k)) |-> KeyText(FieldNames(k)[i])])
                      \o <<" ">> \o w.o.current_where
                      \o Join(", ", [i \in 1..Len(keys) |-> KeyText(keys[i])]),
                !.current_params = @ \o rows]
    IN  IF w.o.is_bulk_update_query THEN _final([w EXCEPT !.o = o], TRUE)
        ELSE IF o.current_params = <<>>
             THEN [w EXCEPT !.o = o,
                            !.ret = Raise(Error("IndexError", "list index out of range"))]
             ELSE _final([w EXCEPT !.o = [o EXCEPT !.current_params = @[1][2]]], FALSE)

\* a limit that fetches without writing the limit into the statement
limit_unwritten(w, row_num) == all(w, FALSE, 1)

limit(w, row_num) ==
    all([w EXCEPT !.o.current_query = @ \o <<" limit ", ToString(row_num)>>], FALSE, 1)

(* ---------------------------------------------------------------------- *)
(* The system: callers, sessions, the handles of the classes, the store    *)
(* ---------------------------------------------------------------------- *)
VARIABLES
    orm,          \* orm[s]: the SqliteOrm object of caller s
    fields,       \* fields[k][f]: the class attribute k.f
    tables,       \* tables[k]: the relation named k of the connection
    creates,      \* whether CREATE TABLE on the connection takes effect
    calls,        \* calls[s]: the calls of s since (and with) its last top-level verb
    ret,          \* ret[s]: what the last call of s returned or raised
    io,           \* io[s]: the store interactions of the last call of s
    last_write    \* the last statement that changed the store

vars == <<orm, fields, tables, creates, calls, ret, io, last_write>>

Sessions == {1, 2}

MaxCalls == 4
MaxHistory == 5
MaxComparators == 2

goku == Instance("User", <<I(9001), S("Goku"), I(45), D(1), F(99)>>)
gohan == Instance("User", <<I(9001), S("Gohan"), I(11), D(1), F(59)>>)
bra == Instance("User", <<I(50), S("Bra"), I(3), D(1), F(99)>>)
fluffy == Instance("Animal", <<I(1), S("Fluffy")>>)
rex == Instance("Animal", <<I(2), S("Rex")>>)

Call(op, par) == [op |-> op, par |-> par]
Verbs == {"select", "insert", "bulk_insert", "delete", "update", "bulk_update"}
NoWrite == <<"none">>
Dropped(k) == <<"drop", k>>

IsWrite(ev) ==
    /\ IsExec(ev)
    /\ ev[4] = ""
    /\ Parse(ev[2]).verb \in {"insert", "delete", "update", "create"}

RECURSIVE LastWrite(_, _)
LastWrite(log, before) ==
    IF log = <<>> THEN before
    ELSE IF IsWrite(log[Len(log)]) THEN log[Len(log)]
    ELSE LastWrite(SubSeq(log, 1, Len(log) - 1), before)


\* the calls on the session itself; comparisons and connectives are calls on
\* the handles
Chained == {"where", "set", "limit", "all", "first", "using"}

RECURSIVE ChainLen(_)
ChainLen(cs) ==
    IF cs = <<>> THEN 0
    ELSE (IF Head(cs).op \in Verbs \cup Chained THEN 1 ELSE 0) + ChainLen(Tail(cs))

Before(s) ==
    [o |-> orm[s], fields |-> fields, t |-> tables, creates |-> creates,
     io |-> <<>>, ret |-> None]

\* caller s has made `call`, which left the world w
Returns(s, call, w) ==
    /\ \A k \in Kinds : Len(w.t[k].rows) <= MaxRows
    /\ call.op \in Chained => ChainLen(calls[s]) < MaxCalls
    /\ call.op \notin Verbs => Len(calls[s]) < MaxHistory
    /\ orm' = [orm EXCEPT ![s] = w.o]
    /\ fields' = w.fields
    /\ tables' = w.t
    /\ ret' = [ret EXCEPT ![s] = w.ret]
    /\ io' = [io EXCEPT ![s] = w.io]
    /\ calls' = [calls EXCEPT ![s] = IF call.op \in Verbs THEN <<call>> ELSE Append(@, call)]
    /\ last_write' = LastWrite(w.io, last_write)
    /\ UNCHANGED creates

Select(s, entity) == Returns(s, Call("select", <<entity>>), select(Before(s), entity))

Delete(s, entity) == Returns(s, Call("delete", <<entity>>), delete(Before(s), entity))

Update(s, entity, instance) ==
    \/ Returns(s, Call("update", <<entity>>), update_entity(Before(s), entity))
    \/ Returns(s, Call("update", <<"instance", instance>>), update_instance(Before(s), instance))

BulkUpdate(s, instances) ==
    Returns(s, Call("bulk_update", <<instances>>), bulk_update(Before(s), instances))

Insert(s, instance, commit) ==
    Returns(s, Call("insert", <<instance, commit>>), insert(Before(s), instance, commit, 1))

BulkInsert(s, instances, commit) ==
    Returns(s, Call("bulk_insert", <<instances, commit>>),
            bulk_insert(Before(s), instances, commit, 1))

\* the number of comparisons held by the handles of kind k
RECURSIVE Held(_, _)
Held(k, fs) ==
    IF fs = <<>> THEN 0 ELSE Len(fields[k][Head(fs)].comparators) + Held(k, Tail(fs))

\* k.f <c> other, evaluated by caller s
Compares(s, k, f, c, other) ==
    /\ fields[k][f].bound
    /\ k = orm[s].current_entity
    /\ Held(k, FieldNames(k)) < MaxComparators
    /\ Returns(s, Call("compare", <<k, f, c, other>>),
               [Before(s) EXCEPT !.fields[k][f] = Comparison(@, c, other),
                                 !.ret = <<"field", k, f>>])

And(s, k, l, r) ==
    /\ fields[k][l].bound /\ fields[k][r].bound
    /\ k = orm[s].current_entity
    /\ Len(fields[k][l].comparators) + Len(fields[k][r].comparators) <= 2 * MaxComparators
    /\ Len(fields[k][l].and_or_s) < MaxComparators
    /\ Returns(s, Call("and", <<k, l, r>>),
               [Before(s) EXCEPT !.fields[k][l] = __and__(@, fields[k][r]),
                                 !.ret = IF fields[k][l].is_iter THEN Raise(NoAppend)
                                         ELSE <<"field", k, l>>])

Or(s, k, l, r) ==
    /\ fields[k][l].bound /\ fields[k][r].bound
    /\ k = orm[s].current_entity
    /\ Len(fields[k][l].and_or_s) < MaxComparators
    /\ Returns(s, Call("or", <<k, l, r>>),
               [Before(s) EXCEPT !.fields[k][l] = __or__(@, fields[k][r]),
                                 !.ret = IF fields[k][l].is_iter THEN Raise(NoAppend)
                                         ELSE <<"field", k, l>>])

\* where(k.f) on a session that has bound k
Where(s, f) ==
    LET k == orm[s].current_entity IN
    /\ k \in Kinds
    /\ f \in FieldNameSet(k)
    /\ fields[k][f].bound
    /\ Returns(s, Call("where", <<k, f>>), where(Before(s), k, f))

Set(s, k, f) ==
    /\ fields[k][f].bound
    /\ k = orm[s].current_entity
    /\ Returns(s, Call("set", <<k, f>>), set(Before(s), fields[k][f]))

\* using(k.key1, ..), on a chain that has made no set call
Using(s, k, keys) ==
    /\ k = orm[s].current_entity
    /\ \A i \in 1..Len(keys) : fields[k][keys[i]].bound
    /\ orm[s].current_params = <<>>
    /\ Returns(s, Call("using", <<k, keys>>), using(Before(s), keys))

Limit(s, row_num) == Returns(s, Call("limit", <<row_num>>), limit(Before(s), row_num))

All(s, commit) == Returns(s, Call("all", <<commit>>), all(Before(s), commit, 1))

First(s) == Returns(s, Call("first", <<>>), first(Before(s), 1))

\* connection.execute('drop table k'), by the host program
DropTable(k) ==
    /\ tables[k].exists
    /\ tables' = [tables EXCEPT ![k] = [exists |-> FALSE, rows |-> <<>>]]
    /\ last_write' = Dropped(k)
    /\ UNCHANGED <<orm, fields, creates, calls, ret, io>>


\* a connection that holds the tables of `present`, empty; sessions built
\* with the given options
InitWith(options, present, storeCreates) ==
    /\ \E c \in options : orm = [s \in Sessions |-> SqliteOrm(c[1], c[2])]
    /\ fields = [k \in Kinds |-> [f \in FieldNameSet(k) |->
                                    [BaseField(f) EXCEPT !.bound = FALSE]]]
    /\ \E p \in present :
          tables = [k \in Kinds |-> [exists |-> k \in p, rows |-> <<>>]]
    /\ creates \in storeCreates
    /\ calls = [s \in Sessions |-> <<>>]
    /\ ret = [s \in Sessions |-> None]
    /\ io = [s \in Sessions |-> <<>>]
    /\ last_write = NoWrite

(* ---------------------------------------------------------------------- *)
(* Spec: one caller working against sqlite                                 *)
(* ---------------------------------------------------------------------- *)
Init == InitWith(BOOLEAN \X {TRUE}, {{}, {"User"}}, {TRUE})

KeyComparisons == {<<"User", "id", "=", I(9001)>>}

Next ==
    \E s \in {1} :
        \/ \E k \in {"User"} : Select(s, k)
        \/ \E k \in {"User"} : Delete(s, k)
        \/ \E i \in {goku, gohan, bra} : Insert(s, i, TRUE)
        \/ \E x \in KeyComparisons : Compares(s, x[1], x[2], x[3], x[4])
        \/ \E f \in {"id"} : Where(s, f)
        \/ \E c \in BOOLEAN : All(s, c)
        \/ First(s)
        \/ \E k \in {"User"} : DropTable(k)

Spec == Init /\ [][Next]_vars

(* ---------------------------------------------------------------------- *)
(* SpecBuild: expressions and statements built on User, against a          *)
(* connection that holds no table, auto-create off                          *)
(* ---------------------------------------------------------------------- *)
Comparisons ==
    {<<"User", "id", ">", I(5)>>, <<"User", "id", "<", I(7)>>,
     <<"User", "age", "<=", I(7)>>,
     <<"User", "name", "=", S("Goku")>>, <<"User", "name", "=", S("Bra")>>,
     <<"User", "name", "!=", S("Bra")>>}

NextBuild ==
    \E s \in {1} :
        \/ \E k \in {"User"} : Select(s, k)
        \/ \E k \in {"User"} : Update(s, k, goku)
        \/ \E x \in Comparisons : Compares(s, x[1], x[2], x[3], x[4])
        \/ \E r \in {"id", "age"} : And(s, "User", "id", r)
        \/ \E r \in {"id", "age"} : Or(s, "User", "id", r)
        \/ \E f \in {"id"} : Where(s, f)
        \/ \E f \in {"name"} : Set(s, "User", f)
        \/ All(s, FALSE)

SpecBuild == InitWith({<<FALSE, TRUE>>}, {{}}, {TRUE}) /\ [][NextBuild]_vars

(* ---------------------------------------------------------------------- *)
(* SpecVerbs: every top-level verb, against a connection that holds no      *)
(* table, auto-create off                                                   *)
(* ---------------------------------------------------------------------- *)
NextVerbs ==
    \E s \in {1} :
        \/ \E k \in Kinds : Select(s, k)
        \/ \E k \in {"User"} : Delete(s, k)
        \/ \E k \in {"User"} : Update(s, k, goku)
        \/ \E l \in {<<goku, bra>>} : BulkUpdate(s, l)
        \/ \E i \in {goku, fluffy} : \E c \in BOOLEAN : Insert(s, i, c)
        \/ \E l \in {<<>>, <<goku, bra>>} : BulkInsert(s, l, TRUE)
        \/ \E x \in KeyComparisons : Compares(s, x[1], x[2], x[3], x[4])
        \/ \E f \in {"id"} : Where(s, f)
        \/ \E f \in {"id"} : Set(s, "User", f)
        \/ \E c \in BOOLEAN : All(s, c)
        \/ First(s)

SpecVerbs == InitWith({<<FALSE, TRUE>>}, {{}}, {TRUE}) /\ [][NextVerbs]_vars

(* ---------------------------------------------------------------------- *)
(* SpecAnyStore: auto-create on, against a store whose CREATE TABLE leaves  *)
(* the table missing                                                        *)
(* ---------------------------------------------------------------------- *)
NextAnyStore ==
    \E s \in {1} :
        \/ \E k \in {"User", "Animal"} : Select(s, k)
        \/ \E i \in {goku, fluffy} : Insert(s, i, TRUE)
        \/ \E l \in {<<>>, <<fluffy, rex>>} : BulkInsert(s, l, TRUE)
        \/ \E x \in KeyComparisons : Compares(s, x[1], x[2], x[3], x[4])
        \/ \E f \in {"id"} : Where(s, f)
        \/ \E c \in BOOLEAN : All(s, c)
        \/ First(s)

SpecAnyStore == InitWith({<<TRUE, TRUE>>}, {{}}, {FALSE}) /\ [][NextAnyStore]_vars

(* ---------------------------------------------------------------------- *)
(* SpecChange: updates of a User table held by sqlite; the verbs also given *)
(* None for an entity                                                       *)
(* ---------------------------------------------------------------------- *)
NextChange ==
    \E s \in {1} :
        \/ \E l \in {<<goku, bra>>} : BulkInsert(s, l, TRUE)
        \/ \E k \in {NoneEntity} : Select(s, k)
        \/ \E k \in {NoneEntity} : Delete(s, k)
        \/ \E i \in {gohan, Instance("NoneType", <<>>)} : Update(s, "User", i)
        \/ \E l \in {<<gohan, bra>>} : BulkUpdate(s, l)
        \/ \E x \in {<<"User", "id", "=", I(9001)>>, <<"User", "name", "=", S("Bra")>>} :
                Compares(s, x[1], x[2], x[3], x[4])
        \/ \E f \in {"name"} : Set(s, "User", f)
        \/ \E f \in {"id", "name"} : Where(s, f)
        \/ \E keys \in {<<"id">>, <<"id", "name">>} : Using(s, "User", keys)

SpecChange == InitWith({<<TRUE, TRUE>>}, {{"User"}}, {TRUE}) /\ [][NextChange]_vars

(* ---------------------------------------------------------------------- *)
(* SpecFetch: fetching from a User table held by sqlite, with and without   *)
(* parse_fields; some records hold values that are not of the declared      *)
(* type (text that sqlite's column affinity leaves as it is)                *)
(* ---------------------------------------------------------------------- *)
NextFetch ==
    \E s \in {1} :
        \/ \E i \in {goku, bra,
                      Instance("User", <<I(7), S("Piccolo"), S("old"), D(1), S("high")>>),
                      Instance("User", <<I(8), S("Krillin"), I(3), S("unknown"), F(50)>>)} :
                Insert(s, i, TRUE)
        \/ \E k \in {"User"} : Select(s, k)
        \/ \E n \in 0..MaxLimit : Limit(s, n)
        \/ All(s, FALSE)
        \/ First(s)

SpecFetch == InitWith({TRUE} \X BOOLEAN, {{"User"}}, {TRUE}) /\ [][NextFetch]_vars

(* ---------------------------------------------------------------------- *)
(* Orm: the generic session and its handles (skinny_orm/orm.py). The        *)
(* session record is that of SqliteOrm; Orm.__init__ gives the fields it    *)
(* has the same values, and its handlers touch no other field.              *)
(* ---------------------------------------------------------------------- *)
\* orm.BaseField.__eq__, __gt__, __ge__, __le__, __lt__, __ne__
Orm_Comparison(h, c, other) ==
    [h EXCEPT !.comparators = Append(@, Comparator(h.field_name, c, other))]

Orm__and__(h, other) ==
    [h EXCEPT !.comparators = @ \o other.comparators,
              !.and_or_s = IF h.is_iter THEN @ ELSE Append(@, "and")]

\* an 'or' that keeps the left operand's comparators as they are
Orm__or__bare(h, other) ==
    [h EXCEPT !.and_or_s = IF h.is_iter THEN @ ELSE Append(@, "or")]

Orm__or__(h, other) ==
    [h EXCEPT !.comparators = @ \o other.comparators,
              !.and_or_s = IF h.is_iter THEN @ ELSE Append(@, "or")]

Orm_re_init(o) ==
    [o EXCEPT !.current_query = None,
              !.current_params = <<>>,
              !.current_where = <<"where ">>]

Orm_select(w, entity) ==
    [w EXCEPT !.o = [Orm_re_init(w.o) EXCEPT
                        !.current_entity = entity,
                        !.current_query = <<"select ">> \o Join(", ", QualifiedNames(entity))
                                                \o <<" from ", entity>>],
              !.fields[entity] = [f \in FieldNameSet(entity) |-> BaseField(f)],
              !.ret = Self]

Orm_delete(w, entity) ==
    [w EXCEPT !.o = [Orm_re_init(w.o) EXCEPT !.current_entity = entity,
                                             !.is_delete_query = TRUE,
                                             !.current_query = <<"delete from ", entity>>],
              !.fields[entity] = [f \in FieldNameSet(entity) |-> BaseField(f)],
              !.ret = Self]

\* r: what cursor.execute(current_query, current_params) gave
Orm_final_delete(w, r) ==
    IF r.err = NoError
    THEN [w EXCEPT !.o.is_delete_query = FALSE,
                   !.t = r.tables,
                   !.io = @ \o <<Cursor, Exec(w.o.current_query, w.o.current_params, r.err),
                                 Commit, Close>>,
                   !.ret = None]
    ELSE [w EXCEPT !.o.is_delete_query = FALSE,
                   !.t = r.tables,
                   !.io = @ \o <<Cursor, Exec(w.o.current_query, w.o.current_params, r.err),
                                 Close>>,
                   !.ret = Raise(Error("Exception", "Woups! => " \o r.err.msg))]

\* loop: what the loop over the comparators of the clause k.f rendered
Orm_where(w, k, f, loop) ==
    LET v == [w EXCEPT !.o.current_params = @ \o loop.params,
                       !.o.current_where = @ \o loop.text,
                       !.o.current_query = @ \o <<" ">> \o w.o.current_where \o loop.text,
                       !.fields[k][f].is_iter = TRUE,
                       !.fields[k][f].and_or_s = loop.left]
    IN  IF w.o.is_delete_query
        THEN Orm_final_delete(v, Execute(v.t, v.creates, v.o.current_query, v.o.current_params))
        ELSE [v EXCEPT !.ret = Self]

\* r: what cursor.execute(current_query, current_params) gave
Orm_first(w, r) ==
    IF r.err # NoError
    THEN [w EXCEPT !.t = r.tables,
                   !.io = @ \o <<Cursor, Exec(w.o.current_query, w.o.current_params, r.err),
                                 Close>>,
                   !.ret = Raise(r.err)]
    ELSE IF r.rows = <<>>
    THEN [w EXCEPT !.t = r.tables,
                   !.io = @ \o <<Cursor, Exec(w.o.current_query, w.o.current_params, r.err)>>,
                   !.ret = None]
    ELSE first_marshaled(
            [w EXCEPT !.t = r.tables,
                      !.io = @ \o <<Cursor, Exec(w.o.current_query, w.o.current_params, r.err)>>],
            Marshal(w.o, <<r.rows[1]>>))

(* ---------------------------------------------------------------------- *)
(* SpecOrm: one caller of the generic Orm, against a connection that holds  *)
(* the User table                                                           *)
(* ---------------------------------------------------------------------- *)
NextOrm ==
    \E s \in {1} :
        \/ \E k \in {"User"} : Returns(s, Call("select", <<k>>), Orm_select(Before(s), k))
        \/ \E k \in {"User"} : Returns(s, Call("delete", <<k>>), Orm_delete(Before(s), k))
        \/ \E x \in {<<"User", "id", "=", I(9001)>>, <<"User", "name", "!=", S("Bra")>>} :
                /\ fields[x[1]][x[2]].bound
                /\ x[1] = orm[s].current_entity
                /\ Held(x[1], FieldNames(x[1])) < MaxComparators
                /\ Returns(s, Call("compare", x),
                           [Before(s) EXCEPT !.fields[x[1]][x[2]] = Orm_Comparison(@, x[3], x[4]),
                                             !.ret = <<"field", x[1], x[2]>>])
        \/ \E x \in {"and", "or"} : \E l \in {"id"} : \E r \in {"id", "name"} :
                /\ fields["User"][l].bound /\ fields["User"][r].bound
                /\ orm[s].current_entity = "User"
                /\ Len(fields["User"][l].comparators) + Len(fields["User"][r].comparators)
                        <= MaxComparators
                /\ Len(fields["User"][l].and_or_s) < MaxComparators
                /\ Returns(s, Call(x, <<"User", l, r>>),
                           [Before(s) EXCEPT
                                !.fields["User"][l] = IF x = "and"
                                                      THEN Orm__and__(@, fields["User"][r])
                                                      ELSE Orm__or__(@, fields["User"][r]),
                                !.ret = IF fields["User"][l].is_iter THEN Raise(NoAppend)
                                        ELSE <<"field", "User", l>>])
        \/ \E f \in {"id"} :
                /\ orm[s].current_entity = "User"
                /\ fields["User"][f].bound
                /\ Returns(s, Call("where", <<"User", f>>),
                           Orm_where(Before(s), "User", f,
                                     WhereLoop("User", fields["User"][f].comparators,
                                               fields["User"][f].and_or_s)))
        \/ /\ orm[s].current_query # None
           /\ Returns(s, Call("first", <<>>),
                      Orm_first(Before(s), Execute(tables, creates, orm[s].current_query,
                                                   orm[s].current_params)))

SpecOrm == InitWith({<<TRUE, TRUE>>}, {{"User"}}, {TRUE}) /\ [][NextOrm]_vars

(* ---------------------------------------------------------------------- *)
(* SpecShared: two callers, each with a session of its own on the one       *)
(* connection, working on User in any interleaving of their calls: both    *)
(* select, caller 1 also deletes, and each compares User.id with a value    *)
(* of its own                                                               *)
(* ---------------------------------------------------------------------- *)
NextShared ==
    \E s \in Sessions :
        \/ \E k \in {"User"} : Select(s, k)
        \/ \E k \in {"User"} : s = 1 /\ Delete(s, k)
        \/ \E x \in {<<1, I(9001)>>, <<2, I(50)>>} : x[1] = s /\ Compares(s, "User", "id", "=", x[2])
        \/ \E f \in {"id"} : Where(s, f)

SpecShared == InitWith({<<TRUE, TRUE>>}, {{"User"}}, {TRUE}) /\ [][NextShared]_vars

(* ---------------------------------------------------------------------- *)
(* The claims, stated of caller 1                                           *)
(* ---------------------------------------------------------------------- *)
Last(cs) == cs[Len(cs)]

\* the statements, spelled out as test_skinny_orm.py reads them
SelectText(k) ==
    CASE k = "User" ->
            "select User.id, User.name, User.age, User.birth, User.percentage from User"
      [] k = "Animal" -> "select Animal.id, Animal.name from Animal"
      [] k = "RockBand" -> "select RockBand.name from RockBand"

InsertText(k) ==
    CASE k = "User" ->
            "INSERT INTO User (id, name, age, birth, percentage) VALUES (?, ?, ?, ?, ?)"
      [] k = "Animal" -> "INSERT INTO Animal (id, name) VALUES (?, ?)"
      [] k = "RockBand" -> "INSERT INTO RockBand (name) VALUES (?)"

IsCreate(ev) == ev[1] = "execute" /\ ev[2][1] = "CREATE TABLE \""
MissingTable(ev) == IsExec(ev) /\ \E k \in Kinds : ev[4] = "no such table: " \o k
Executes(log) == Cardinality({i \in 1..Len(log) : IsExec(log[i])})
Attempts(log) == Cardinality({i \in 1..Len(log) : IsExec(log[i]) /\ ~IsCreate(log[i])})
Creations(log) == Cardinality({i \in 1..Len(log) : IsCreate(log[i])})
Commits(log) == \E i \in 1..Len(log) : log[i] = Commit

\* select(k).where(k.key == v).first()
KeyLookup(k, key, v) ==
    <<Call("select", <<k>>), Call("compare", <<k, key, "=", v>>),
      Call("where", <<k, key>>), Call("first", <<>>)>>

\* the last change of the store is the insert of record r
InsertedLast(r) ==
    /\ Len(last_write) = 4
    /\ last_write[1] = "execute"
    /\ last_write[4] = ""
    /\ Text(last_write[2]) = InsertText(r.cls)
    /\ last_write[3] = r.vals

\* the last change of the store is "delete from k where k.key = ?" with v
DeletedLast(k, key, v) ==
    /\ Len(last_write) = 4
    /\ last_write[1] = "execute"
    /\ last_write[4] = ""
    /\ Text(last_write[2]) = "delete from " \o k \o " where " \o k \o "." \o key \o " = ? "
    /\ last_write[3] = <<v>>

\* the rows of r's table that hold r's key (the first field)
KeyCount(r) ==
    Cardinality({i \in 1..Len(tables[r.cls].rows) : tables[r.cls].rows[i][1] = r.vals[1]})

\* the fields of a equal those of r, a timestamp compared after parsing
SameRecord(a, r) ==
    /\ a.cls = r.cls
    /\ Len(a.vals) = Len(r.vals)
    /\ \A i \in 1..Len(r.vals) :
          IF FieldType(r.cls, FieldNames(r.cls)[i]) = "datetime" /\ a.vals[i][1] = "str"
          THEN DateParse(a.vals[i][2]) = r.vals[i]
          ELSE a.vals[i] = r.vals[i]

Operands(comparators) == [i \in 1..Len(comparators) |-> comparators[i].other]

\* C1: for every entity kind E, select(E) leaves the session's query text
\* exactly 'select E.f1, ..., E.fn from E', the fields in declaration order,
\* whatever the session held before the call.
C1_SelectText ==
    \A k \in Kinds :
        calls[1] = <<Call("select", <<k>>)>> => Text(orm[1].current_query) = SelectText(k)

\* select(Animal) made after a where() on User.id
C1_Witness ==
    /\ calls[1] = <<Call("select", <<"Animal">>)>>
    /\ fields["User"]["id"].is_iter
    /\ Text(orm[1].current_query) = "select Animal.id, Animal.name from Animal"

\* C2 as stated: for every record r and every content of its table, insert(r)
\* followed by select(E).where(E.key == r.key).first() returns a record whose
\* fields equal r's.
C2_Original ==
    \A r \in {goku, gohan, bra} :
        (calls[1] = KeyLookup(r.cls, "id", r.vals[1]) /\ InsertedLast(r))
            => (ret[1][1] = "instance" /\ SameRecord(ret[1][2], r))

\* C2, amended: insert(r) followed by select(E).where(E.key == r.key).first()
\* returns a record whose fields equal r's (the timestamp compared after
\* parsing), provided no other row of the table holds r's key.
C2_RoundTrip ==
    \A r \in {goku, gohan, bra} :
        (calls[1] = KeyLookup(r.cls, "id", r.vals[1]) /\ InsertedLast(r) /\ KeyCount(r) = 1)
            => (ret[1][1] = "instance" /\ SameRecord(ret[1][2], r))

\* goku inserted into a table that holds bra, then looked up by key
C2_Witness ==
    /\ calls[1] = KeyLookup("User", "id", I(9001))
    /\ InsertedLast(goku)
    /\ Len(tables["User"].rows) = 2
    /\ tables["User"].rows[1][1] = I(50)
    /\ ret[1] = <<"instance", goku>>

\* C3 as stated: select(E).where(c1 & c2) renders
\* 'where E.<f1> <op1> ? and E.<f2> <op2> ? ' after the select text, with the
\* parameters [operand1, operand2].
C3_Original ==
    \A c1, c2 \in Comparisons :
        calls[1] = <<Call("select", <<"User">>), Call("compare", c1), Call("compare", c2),
                     Call("and", <<"User", c1[2], c2[2]>>), Call("where", <<"User", c1[2]>>)>>
        => /\ Text(orm[1].current_query) =
                    SelectText("User") \o " where User." \o c1[2] \o " " \o c1[3] \o " ? and User."
                        \o c2[2] \o " " \o c2[3] \o " ? "
           /\ orm[1].current_params = <<c1[4], c2[4]>>

\* C4 as stated: after update(E), k set calls with equality comparisons leave
\* the set-clause 'set <g1> = ? , ... <gk> = ? ' and the parameters
\* [x1, ..., xk], xi the operand of the comparison given to the i-th call
\* (k = 1 and k = 2 here).
C4_Original ==
    \A c1, c2 \in {x \in Comparisons : x[3] = "="} :
        /\ calls[1] = <<Call("update", <<"User">>), Call("compare", c1),
                        Call("set", <<"User", c1[2]>>)>>
           => /\ Text(orm[1].current_update_set) = "set " \o c1[2] \o " = ? "
              /\ orm[1].current_params = <<c1[4]>>
        /\ calls[1] = <<Call("update", <<"User">>), Call("compare", c1),
                        Call("set", <<"User", c1[2]>>), Call("compare", c2),
                        Call("set", <<"User", c2[2]>>)>>
           => /\ Text(orm[1].current_update_set) =
                        "set " \o c1[2] \o " = ? , " \o c2[2] \o " = ? "
              /\ orm[1].current_params = <<c1[4], c2[4]>>

\* C5 as stated: a set call whose argument was built with a non-equality
\* operator raises NotValidComparator, after any earlier set calls, makes no
\* store interaction and leaves the set-clause and the parameters unchanged.
C5_Original ==
    [][\A x \in {y \in Comparisons : y[3] # "="} :
          (/\ Len(calls[1]) >= 1
           /\ Last(calls[1]) = Call("compare", x)
           /\ calls'[1] = Append(calls[1], Call("set", <<x[1], x[2]>>)))
          => /\ Raised(ret'[1])
             /\ ret'[1][2] = "NotValidComparator"
             /\ io'[1] = <<>>
             /\ orm'[1].current_update_set = orm[1].current_update_set
             /\ orm'[1].current_params = orm[1].current_params]_vars

\* C6: with auto-create on, select(E).all() and select(E).first() on an entity
\* whose table is missing create the table and return an empty result (all:
\* the empty list, first: None) instead of raising; the table exists
\* afterwards (until the host program drops it).
C6_SelectCreatesMissingTable ==
    \A k \in Kinds :
        (/\ Len(calls[1]) = 2
         /\ calls[1][1] = Call("select", <<k>>)
         /\ calls[1][2].op \in {"all", "first"}
         /\ orm[1].create_tables_if_not_exists
         /\ Len(io[1]) >= 2
         /\ IsExec(io[1][2])
         /\ io[1][2][4] = "no such table: " \o k)
        => /\ ret[1] = IF calls[1][2].op = "all" THEN <<"list", <<>>>> ELSE None
           /\ Creations(io[1]) = 1
           /\ last_write # Dropped(k) => tables[k].exists

\* select(User).first() that found no table, created it and returned None
C6_Witness ==
    /\ calls[1] = <<Call("select", <<"User">>), Call("first", <<>>)>>
    /\ orm[1].create_tables_if_not_exists
    /\ Len(io[1]) >= 2
    /\ MissingTable(io[1][2])
    /\ ret[1] = None
    /\ tables["User"].exists

\* C7: with create_tables_if_not_exists false, a missing-table error of the
\* store during insert, bulk_insert, all or first reaches the caller as the
\* store's own error, unchanged, and the session never issues a CREATE TABLE.
C7_MissingTablePropagates ==
    ~orm[1].create_tables_if_not_exists =>
        /\ Creations(io[1]) = 0
        /\ (/\ calls[1] # <<>>
            /\ Last(calls[1]).op \in {"insert", "bulk_insert", "all", "first"}
            /\ Len(io[1]) >= 2
            /\ MissingTable(io[1][2]))
           => ret[1] = <<"raise", "sqlite3.OperationalError", io[1][2][4]>>

\* a bulk_insert that met no table and raised the store's error
C7_Witness ==
    /\ ~orm[1].create_tables_if_not_exists
    /\ calls[1] = <<Call("bulk_insert", <<(<<goku, bra>>), TRUE>>)>>
    /\ io[1] = <<Cursor, ExecMany(_generate_insert_query("User"), RowList(<<goku, bra>>),
                                  NoSuchTable("User"))>>
    /\ ret[1] = <<"raise", "sqlite3.OperationalError", "no such table: User">>

\* C8 as stated: one call of insert or bulk_insert with auto-create on makes
\* at most two execution attempts and one table creation, and terminates for
\* every store, a second missing-table failure being propagated.
C8_Original ==
    (/\ Len(calls[1]) = 1
     /\ calls[1][1].op \in {"insert", "bulk_insert"}
     /\ orm[1].create_tables_if_not_exists)
    => /\ Attempts(io[1]) <= 2
       /\ Creations(io[1]) <= 1
       /\ ret[1] # Raise(RecursionError)
       /\ Attempts(io[1]) = 2 => ret[1] = <<"raise", "sqlite3.OperationalError",
                                            io[1][Len(io[1])][4]>>

\* C9: every top-level verb starts from a re-initialised state: whatever the
\* earlier calls left, after the verb the parameters, where-text, set-text,
\* mode flags, pending records, entity and query are those the verb itself
\* sets.
C9_VerbsStartClean ==
    (Len(calls[1]) = 1 /\ calls[1][1].op \in Verbs) =>
        LET c == calls[1][1]
            o == orm[1]
            instance == c.op = "update" /\ Len(c.par) = 2
        IN  /\ o.current_where = <<"where ">>
            /\ o.current_update_set = <<"set ">>
            /\ o.is_delete_query = (c.op = "delete")
            /\ o.is_update_query = (c.op \in {"update", "bulk_update"})
            /\ o.is_bulk_update_query = (c.op = "bulk_update")
            /\ o.current_params =
                    CASE c.op = "insert" -> c.par[1].vals
                      [] c.op = "bulk_insert" ->
                            [i \in 1..Len(c.par[1]) |-> <<"list", c.par[1][i].vals>>]
                      [] OTHER -> <<>>
            /\ o.update_instances =
                    CASE instance -> <<c.par[2]>>
                      [] c.op = "bulk_update" -> c.par[1]
                      [] OTHER -> <<>>
            /\ o.current_entity =
                    CASE c.op \in {"select", "delete"} -> c.par[1]
                      [] instance -> c.par[2].cls
                      [] c.op = "update" -> c.par[1]
                      [] c.op = "bulk_update" -> c.par[1][1].cls
                      [] OTHER -> NoneEntity
            /\ CASE c.op = "select" -> Text(o.current_query) = SelectText(c.par[1])
                 [] c.op = "delete" -> Text(o.current_query) = "delete from " \o c.par[1]
                 [] c.op \in {"update", "bulk_update"} ->
                        Text(o.current_query) = "update " \o o.current_entity \o " "
                 [] c.op = "insert" -> Text(o.current_query) = InsertText(c.par[1].cls)
                 [] c.op = "bulk_insert" ->
                        IF c.par[1] = <<>> THEN o.current_query = None
                        ELSE Text(o.current_query) = InsertText(c.par[1][1].cls)

\* insert(goku) made after a chain that ran where() on User.id
C9_Witness ==
    /\ calls[1] = <<Call("insert", <<goku, TRUE>>)>>
    /\ fields["User"]["id"].is_iter
    /\ fields["User"]["id"].comparators # <<>>
    /\ orm[1].current_params = goku.vals
    /\ orm[1].current_where = <<"where ">>

\* the parts of C10. delete(E) makes no store interaction
DeleteIsSilent ==
    \A k \in Kinds : calls[1] = <<Call("delete", <<k>>)>> => io[1] = <<>>

\* a step of the session that removes rows of a table is a call among ops
RemovedBy(ops) ==
    \A k \in Kinds :
        (tables'[k].exists /\ Len(tables'[k].rows) < Len(tables[k].rows))
            => (calls'[1] # <<>> /\ Last(calls'[1]).op \in ops)

\* an expression: comparisons, with a connective between each two
IsExpression(h) == Len(h.comparators) = Len(h.and_or_s) + 1

\* where(expr) in delete mode, expr held by k.f: one execute, of the delete
\* statement, with the operands of the expression; delete mode left; the
\* statement, once it succeeded, committed
WhereDeletes ==
    \A k \in Kinds : \A f \in FieldNameSet(k) :
        (/\ orm[1].is_delete_query
         /\ IsExpression(fields[k][f])
         /\ calls'[1] = Append(calls[1], Call("where", <<k, f>>)))
        => /\ Executes(io'[1]) = 1
           /\ io'[1][2][1] = "execute"
           /\ io'[1][2][3] = Operands(fields[k][f].comparators)
           /\ io'[1][2][2] = orm'[1].current_query
           /\ ~orm'[1].is_delete_query
           /\ io'[1][2][4] = "" => Commits(io'[1])
           /\ \A x \in KeyComparisons :
                calls'[1] = <<Call("delete", <<k>>), Call("compare", x), Call("where", <<k, f>>)>>
                => Text(io'[1][2][2]) =
                        "delete from " \o k \o " where " \o k \o "." \o f \o " = ? "

\* once 'delete from k where k.key = ?' with v is the last change of the
\* store, select(k).where(k.key == v).first() returns None
DeletedKeyIsGone ==
    \A x \in KeyComparisons :
        (calls[1] = KeyLookup(x[1], x[2], x[4]) /\ DeletedLast(x[1], x[2], x[4]))
            => ret[1] = None

\* C10 as stated: delete(E) makes no store interaction; rows are removed only
\* by the following where(expr) or all(); in delete mode where(expr) executes
\* 'delete from E where ...' exactly once with the expression's operands,
\* commits it and clears delete mode; a later lookup of a deleted key returns
\* None.
C10_Original ==
    /\ [](DeleteIsSilent /\ DeletedKeyIsGone)
    /\ [][RemovedBy({"where", "all"}) /\ WhereDeletes]_vars

\* update(User).set(c1).where(c2)
SetThenWhere(c1, c2) ==
    <<Call("update", <<"User">>), Call("compare", c1), Call("set", <<"User", c1[2]>>),
      Call("compare", c2), Call("where", <<"User", c2[2]>>)>>

\* C11 as stated: for update(E).set(s1).where(expr) the statement executed is
\* 'update E', the set-clause, the where-clause of expr, in that order, with
\* the set operands followed by the where operands; it is executed exactly
\* once and committed. Outside delete and update mode where touches no store
\* and returns the session.
C11_Original ==
    /\ \A c1 \in {<<"User", "name", "=", S("Bra")>>} :
       \A c2 \in {<<"User", "id", "=", I(9001)>>, <<"User", "name", "=", S("Bra")>>} :
            calls[1] = SetThenWhere(c1, c2)
            => /\ Executes(io[1]) = 1
               /\ io[1][2][1] = "execute"
               /\ Text(io[1][2][2]) =
                        "update User  set " \o c1[2] \o " = ?  where User." \o c2[2] \o " = ? "
               /\ io[1][2][3] = <<c1[4], c2[4]>>
               /\ Commits(io[1])
    /\ (/\ calls[1] # <<>>
        /\ Last(calls[1]).op = "where"
        /\ calls[1][1].op \notin {"delete", "update", "bulk_update"})
       => (io[1] = <<>> /\ ret[1] = Self)

\* the values of the fields `keys` of record r, and the parameter row of r
KeyVals(r, keys) == [j \in 1..Len(keys) |-> r.vals[FieldIndex(r.cls, keys[j])]]
ParamRow(r, keys) == r.vals \o KeyVals(r, keys)

\* every row of r's table that holds r's values of `keys` holds r's values
Overwritten(r, keys) ==
    \A i \in 1..Len(tables[r.cls].rows) :
        (\A j \in 1..Len(keys) :
            tables[r.cls].rows[i][FieldIndex(r.cls, keys[j])] = KeyVals(r, keys)[j])
        => tables[r.cls].rows[i] = Adapted(r.vals)

\* C12 as stated: bulk_update(records).using(k1..km) executes one batch with
\* one parameter row per record, in order, each the record's values followed
\* by its values of k1..km; update(record).using(k1..km) executes once with
\* that single row; both are committed and every row whose key matches is
\* overwritten (m = 1 and m = 2 here).
C12_Original ==
    \A keys \in {<<"id">>, <<"id", "name">>} :
        /\ calls[1] = <<Call("bulk_update", <<(<<gohan, bra>>)>>), Call("using", <<"User", keys>>)>>
           => /\ Executes(io[1]) = 1
              /\ io[1][2][1] = "executemany"
              /\ io[1][2][3] = <<(<<"list", ParamRow(gohan, keys)>>), (<<"list", ParamRow(bra, keys)>>)>>
              /\ io[1][2][4] = ""
              /\ Commits(io[1])
              /\ Overwritten(gohan, keys) /\ Overwritten(bra, keys)
        /\ calls[1] = <<Call("update", <<"instance", gohan>>), Call("using", <<"User", keys>>)>>
           => /\ Executes(io[1]) = 1
              /\ io[1][2][1] = "execute"
              /\ io[1][2][3] = ParamRow(gohan, keys)
              /\ io[1][2][4] = ""
              /\ Commits(io[1])
              /\ Overwritten(gohan, keys)

\* the same with one key field: what holds of using(k)
C12_OneKey ==
    \A keys \in {<<"id">>} :
        /\ calls[1] = <<Call("bulk_update", <<(<<gohan, bra>>)>>), Call("using", <<"User", keys>>)>>
           => /\ Executes(io[1]) = 1
              /\ io[1][2][3] = <<(<<"list", ParamRow(gohan, keys)>>), (<<"list", ParamRow(bra, keys)>>)>>
              /\ io[1][2][4] = ""
              /\ Commits(io[1])
              /\ Overwritten(gohan, keys) /\ Overwritten(bra, keys)
        /\ calls[1] = <<Call("update", <<"instance", gohan>>), Call("using", <<"User", keys>>)>>
           => /\ Executes(io[1]) = 1
              /\ io[1][2][3] = ParamRow(gohan, keys)
              /\ io[1][2][4] = ""
              /\ Commits(io[1])
              /\ Overwritten(gohan, keys)

\* a cursor of the log that no close follows before the next cursor is taken
\* (a verb closes the cursor of its own frame only)
CursorLeftOpen(log) ==
    \E i \in 1..Len(log) :
        /\ log[i] = Cursor
        /\ ~\E j \in (i + 1)..Len(log) :
                /\ log[j] = Close
                /\ \A m \in (i + 1)..j : log[m] # Cursor

\* C13 as stated: every cursor a verb acquires is closed on every exit path
\* of the verb; no returned verb leaves an open cursor.
C13_Original == ~CursorLeftOpen(io[1])

\* C14 as stated: select, delete and update each fail with NotValidEntity
\* when their target has no schema descriptor (None), before any store
\* interaction.
C14_Original ==
    calls[1] \in {<<Call("select", <<NoneEntity>>)>>, <<Call("delete", <<NoneEntity>>)>>,
                  <<Call("update", <<"instance", Instance("NoneType", <<>>)>>)>>}
    => /\ Raised(ret[1])
       /\ ret[1][2] = "NotValidEntity"
       /\ io[1] = <<>>

\* a stored value that its field's declared type accepts: a number or a
\* numeral for int and float, anything for str, the text of a date for datetime
Converts(type, v) ==
    CASE type = "str" -> TRUE
      [] type \in {"int", "float"} ->
            v[1] \in {"int", "float"} \/ (v[1] = "str" /\ IsIntText(v[2]))
      [] type = "datetime" -> v[1] = "str" /\ \E n \in 1..MaxDt : DtText(n) = v[2]

BadFields(k, row) == {i \in 1..Len(row) : ~Converts(DataclassFields(k)[i][2], row[i])}
BadRows(k, rows) == {i \in 1..Len(rows) : BadFields(k, rows[i]) # {}}
Least(ns) == CHOOSE i \in ns : \A j \in ns : i <= j

\* the ParseError the claim expects for `row`
Expected(k, row) ==
    Raise(ParseError(FieldNames(k)[Least(BadFields(k, row))],
                     DataclassFields(k)[Least(BadFields(k, row))][2]))

\* C15 as stated: with parse_fields on, a fetched row holding a value that
\* cannot be converted to its field's type makes all / first raise ParseError
\* naming the first such field in schema order; with parse_fields off the
\* row's values reach the record unchanged and no ParseError is raised.
C15_Original ==
    LET rows == tables["User"].rows IN
    /\ (calls[1] = <<Call("select", <<"User">>), Call("first", <<>>)>> /\ rows # <<>>)
       => IF orm[1].parse_fields
          THEN BadFields("User", rows[1]) # {} => ret[1] = Expected("User", rows[1])
          ELSE ret[1] = <<"instance", Instance("User", rows[1])>>
    /\ calls[1] = <<Call("select", <<"User">>), Call("all", <<FALSE>>)>>
       => IF orm[1].parse_fields
          THEN BadRows("User", rows) # {}
                    => ret[1] = Expected("User", rows[Least(BadRows("User", rows))])
          ELSE ret[1] = <<"list", [i \in 1..Len(rows) |-> Instance("User", rows[i])]>>

\* select(k).where(k.f <c> v) followed by the terminal `last`
Lookup(x, last) ==
    <<Call("select", <<x[1]>>), Call("compare", x), Call("where", <<x[1], x[2]>>), last>>

\* no row of the table of x satisfies the comparison x
NoRowMatches(x) ==
    /\ tables[x[1]].exists
    /\ \A i \in 1..Len(tables[x[1]].rows) :
            ~Compare(x[3], tables[x[1]].rows[i][FieldIndex(x[1], x[2])], x[4])

\* C16: when the table exists and no row matches the where-clause,
\* select(E).where(expr).all() returns the empty list, never None, and
\* select(E).where(expr).first() returns None without raising.
C16_NoMatch ==
    \A x \in KeyComparisons :
        /\ \A c \in BOOLEAN :
                (calls[1] = Lookup(x, Call("all", <<c>>)) /\ NoRowMatches(x))
                    => ret[1] = <<"list", <<>>>>
        /\ (calls[1] = Lookup(x, Call("first", <<>>)) /\ NoRowMatches(x)) => ret[1] = None

\* a lookup of key 9001 with all() in a table that holds bra only
C16_Witness ==
    /\ calls[1] = Lookup(<<"User", "id", "=", I(9001)>>, Call("all", <<FALSE>>))
    /\ Len(tables["User"].rows) = 1
    /\ tables["User"].rows[1][1] = I(50)
    /\ Len(io[1]) >= 2 /\ io[1][2][4] = ""
    /\ ret[1] = <<"list", <<>>>>

\* every row of the User table is the stored form of a well-typed record
WellTyped == \A i \in 1..Len(tables["User"].rows) :
                tables["User"].rows[i] \in {Adapted(goku.vals), Adapted(bra.vals)}

\* C17: select(E).limit(n) appends ' limit n' to the select text, executes
\* at once, and returns exactly n records when the table holds at least n + 1
\* rows, all rows when it holds fewer than n (rows of well-typed records, or
\* parse_fields off).
C17_Limit ==
    \A n \in 0..(MaxLimit + 1) :
        calls[1] = <<Call("select", <<"User">>), Call("limit", <<n>>)>>
        => /\ Text(orm[1].current_query) = SelectText("User") \o " limit " \o ToString(n)
           /\ Executes(io[1]) = 1
           /\ io[1][2] = Exec(orm[1].current_query, <<>>, NoError)
           /\ (WellTyped \/ ~orm[1].parse_fields)
              => /\ ret[1][1] = "list"
                 /\ Len(tables["User"].rows) >= n + 1 => Len(ret[1][2]) = n
                 /\ Len(tables["User"].rows) < n => Len(ret[1][2]) = Len(tables["User"].rows)

\* limit(1) on a table of two rows returned one record
C17_Witness ==
    /\ calls[1] = <<Call("select", <<"User">>), Call("limit", <<1>>)>>
    /\ Len(tables["User"].rows) = 2
    /\ WellTyped /\ orm[1].parse_fields
    /\ ret[1][1] = "list" /\ Len(ret[1][2]) = 1

\* the store's errors, by type
StoreErrors == {"sqlite3.OperationalError", "sqlite3.ProgrammingError", "sqlite3.InterfaceError"}

\* the last statement of the log failed, and not for a missing table
FailedOtherwise(log) ==
    /\ log # <<>>
    /\ \E i \in 1..Len(log) :
            /\ IsExec(log[i])
            /\ \A j \in (i + 1)..Len(log) : ~IsExec(log[j])
            /\ log[i][4] # ""
            /\ ~MissingTable(log[i])

LastError(log) ==
    log[CHOOSE i \in 1..Len(log) : IsExec(log[i]) /\ \A j \in (i + 1)..Len(log) : ~IsExec(log[j])][4]

\* C18 as stated: a store error other than the missing-table condition is
\* propagated verbatim, the same error the store raised, by every executing
\* operation, the terminating where of a delete or update and using included.
C18_Original ==
    FailedOtherwise(io[1])
    => /\ Raised(ret[1])
       /\ ret[1][2] \in StoreErrors
       /\ ret[1][3] = LastError(io[1])

\* C19 as stated: no delete or update operation (delete then where, delete
\* then all, update..set..where, update or bulk_update then using) ever
\* creates a table, even with auto-create on.
C19_Original ==
    (/\ calls[1] # <<>>
     /\ calls[1][1].op \in {"delete", "update", "bulk_update"}
     /\ Last(calls[1]).op \in {"where", "all", "using"})
    => Creations(io[1]) = 0

\* C20: a CREATE TABLE is issued only with auto-create on and only right
\* after a statement of the same verb call failed for the missing table of
\* that entity; no verb creates a table before trying its statement.
C20_ReactiveCreation ==
    \A i \in 1..Len(io[1]) :
        IsCreate(io[1][i])
        => /\ orm[1].create_tables_if_not_exists
           /\ i >= 2
           /\ IsExec(io[1][i - 1])
           /\ ~IsCreate(io[1][i - 1])
           /\ io[1][i - 1][4] = "no such table: " \o io[1][i][2][2]

\* insert(goku) that met no User table, created it and inserted
C20_Witness ==
    /\ calls[1] = <<Call("insert", <<goku, TRUE>>)>>
    /\ Len(io[1]) >= 5
    /\ io[1][2] = Exec(_generate_insert_query("User"), goku.vals, NoSuchTable("User"))
    /\ io[1][3] = Exec(CreateTableQuery("User"), <<>>, NoError)
    /\ io[1][5] = Exec(_generate_insert_query("User"), goku.vals, NoError)

(* ---------------------------------------------------------------------- *)
(* C21: base_field.BaseField and orm.BaseField, applied to the same two     *)
(* operands, give the same comparator and connector lists for every         *)
(* comparison and for 'and'; for 'or' they give the same connector list     *)
(* (the old one with 'or' appended), base_field's keeps the left            *)
(* comparator list as it is and orm's appends the right operand's           *)
(* comparators to it, so that the two differ exactly when the right         *)
(* operand holds a comparator.                                              *)
(* ---------------------------------------------------------------------- *)
C21_OrDiffers ==
    \A l, r \in FieldNameSet("User") :
        LET hl == fields["User"][l]
            hr == fields["User"][r]
        IN  /\ \A c \in Comparators : \A v \in {I(9001), S("Bra")} :
                    Orm_Comparison(hl, c, v) = Comparison(hl, c, v)
            /\ Orm__and__(hl, hr) = __and__(hl, hr)
            /\ __or__(hl, hr).comparators = hl.comparators
            /\ ~hl.is_iter => __or__(hl, hr).and_or_s = Append(hl.and_or_s, "or")
            /\ Orm__or__(hl, hr).comparators = hl.comparators \o hr.comparators
            /\ Orm__or__(hl, hr).and_or_s = __or__(hl, hr).and_or_s
            /\ (Orm__or__(hl, hr) # __or__(hl, hr)) <=> (hr.comparators # <<>>)

\* an 'or' of two handles that each hold a comparison has been evaluated
C21_Witness ==
    /\ calls[1] # <<>>
    /\ Last(calls[1]).op = "or"
    /\ Last(calls[1]).par[2] # Last(calls[1]).par[3]
    /\ Len(fields["User"][Last(calls[1]).par[3]].comparators) = 1
    /\ Len(fields["User"][Last(calls[1]).par[2]].comparators) = 2
    /\ ~Raised(ret[1])

(* ---------------------------------------------------------------------- *)
(* C22 as stated: the statement that using(k1, k2) sends is read by the     *)
(* store as an update restricted by the conjunction k1 = ? and k2 = ?, the  *)
(* parameters of the conditions being the pending record's values of k1     *)
(* and k2, and the store carries it out.                                    *)
(* ---------------------------------------------------------------------- *)
C22_Original ==
    \A c \in {Call("update", <<"instance", gohan>>), Call("bulk_update", <<(<<gohan, bra>>)>>)} :
        calls[1] = <<c, Call("using", <<"User", (<<"id", "name">>)>>)>>
        => /\ Executes(io[1]) = 1
           /\ Parse(io[1][2][2]).verb = "update"
           /\ Parse(io[1][2][2]).conds = <<[f |-> "id", c |-> "="], [f |-> "name", c |-> "="]>>
           /\ Parse(io[1][2][2]).conns = <<"and ">>
           /\ io[1][2][4] = ""

\* the comparisons rendered into a piece of statement text
IsUserCond(chunk) == IsCond("User", chunk)

(* ---------------------------------------------------------------------- *)
(* C23: the handles of User are shared by the sessions. A bind of User      *)
(* (select, delete) by either caller leaves every handle of User new,       *)
(* whoever wrote to it; a comparison by either caller is appended to what   *)
(* the handle holds, whoever wrote that; and where, by either caller,       *)
(* renders every comparator the handle holds and passes every operand it    *)
(* holds, in order. So a caller's where can carry the other caller's        *)
(* comparison (C23_Witness).                                                *)
(* ---------------------------------------------------------------------- *)
C23_SharedHandles ==
    [][\A s \in Sessions :
        /\ (/\ calls'[s] # calls[s]
            /\ Len(calls'[s]) = 1
            /\ calls'[s][1].op \in {"select", "delete"}
            /\ ~Raised(ret'[s]))
           => \A f \in FieldNameSet("User") : fields'["User"][f] = BaseField(f)
        /\ \A v \in {I(9001), I(50)} :
                calls'[s] = Append(calls[s], Call("compare", <<"User", "id", "=", v>>))
                => fields'["User"]["id"].comparators
                        = Append(fields["User"]["id"].comparators, Comparator("id", "=", v))
        /\ calls'[s] = Append(calls[s], Call("where", <<"User", "id">>))
           => /\ orm'[s].current_params
                    = orm[s].current_params \o Operands(fields["User"]["id"].comparators)
              /\ SelectSeq(orm'[s].current_where, IsUserCond)
                    = SelectSeq(orm[s].current_where, IsUserCond)
                        \o [i \in 1..Len(fields["User"]["id"].comparators) |->
                                CondText("User", "id", fields["User"]["id"].comparators[i].comparator)]
      ]_vars

\* caller 1, who compares User.id with 9001 only, has called where, and the
\* parameters of its statement hold the 50 that caller 2 compared with
C23_Witness ==
    /\ calls[1] # <<>>
    /\ Last(calls[1]).op = "where"
    /\ \E i \in 1..Len(orm[1].current_params) : orm[1].current_params[i] = I(50)
    /\ \E i \in 1..Len(calls[2]) : calls[2][i] = Call("compare", <<"User", "id", "=", I(50)>>)
    /\ Len(SelectSeq(orm[1].current_where, IsUserCond)) = Len(orm[1].current_params)

(* ---------------------------------------------------------------------- *)
(* C24 as stated, for two comparisons c1, c2 on fields of User (the same    *)
(* field or two) combined by '&' or by '|': where renders c1 and c2 once    *)
(* each, in order, with the one connector between them and none after,      *)
(* and appends the operand of c1 and the operand of c2, in order.           *)
(* ---------------------------------------------------------------------- *)
C24_Original ==
    \A c1, c2 \in Comparisons : \A x \in {"and", "or"} :
        calls[1] = <<Call("select", <<"User">>), Call("compare", c1), Call("compare", c2),
                     Call(x, <<"User", c1[2], c2[2]>>), Call("where", <<"User", c1[2]>>)>>
        => /\ orm[1].current_where =
                    <<"where ", CondText("User", c1[2], c1[3]), x \o " ",
                      CondText("User", c2[2], c2[3])>>
           /\ orm[1].current_params = <<c1[4], c2[4]>>

(* ---------------------------------------------------------------------- *)
(* C25 as stated: in update(User).set(User.name == a).where(User.name == b) *)
(* the where-clause holds the one comparison 'User.name = ? ' written for   *)
(* where, and the parameters executed are [a, b] (a = b = 'Bra' here).      *)
(* ---------------------------------------------------------------------- *)
C25_Original ==
    \A c \in {<<"User", "name", "=", S("Bra")>>} :
        calls[1] = SetThenWhere(c, c)
        => /\ orm[1].current_where = <<"where ", CondText("User", "name", "=")>>
           /\ Executes(io[1]) = 1
           /\ io[1][2][3] = <<c[4], c[4]>>

\* the pieces of statement text that hold a '?' hold one
HasMark(chunk) ==
    \/ chunk = "?"
    \/ \E k \in Kinds : \E f \in FieldNameSet(k) :
            \/ chunk \in {AssignText(f), KeyText(f)}
            \/ \E c \in Comparators : chunk = CondText(k, f, c)

Marks(q) == Len(SelectSeq(q, HasMark))

(* ---------------------------------------------------------------------- *)
(* C26 as stated: every statement the last call sent to the store has as    *)
(* many '?' in its text as parameters were passed with it (for a batch, as  *)
(* every parameter row holds).                                              *)
(* ---------------------------------------------------------------------- *)
C26_Original ==
    \A i \in 1..Len(io[1]) :
        /\ io[1][i][1] = "execute" => Marks(io[1][i][2]) = Len(io[1][i][3])
        /\ io[1][i][1] = "executemany"
           => \A j \in 1..Len(io[1][i][3]) : Marks(io[1][i][2]) = Len(io[1][i][3][j][2])

(* ---------------------------------------------------------------------- *)
(* C27 as stated, of the generic Orm: whatever the session did before,      *)
(* a delete(User) left without terminal or ended by first included,         *)
(* select(User).where(expr) makes no store interaction, commits nothing     *)
(* and returns the session.                                                 *)
(* ---------------------------------------------------------------------- *)
C27_Original ==
    (/\ Len(calls[1]) >= 2
     /\ calls[1][1] = Call("select", <<"User">>)
     /\ Last(calls[1]).op = "where"
     /\ \A i \in 2..(Len(calls[1]) - 1) : calls[1][i].op \in {"compare", "and", "or"})
    => /\ io[1] = <<>>
       /\ ~Commits(io[1])
       /\ ret[1] = Self

====
